---- MODULE Spec2Model ----
(***************************************************************************)
(* Model of the swagen "generate" command (src/unnamed/part_000) and of    *)
(* the generator aggregation entry point (src/lib/generator/index.js).     *)
(*                                                                         *)
(* One invocation loads a configuration (a key-ordered list of profiles),  *)
(* runs the synchronous processInputs loop over it and then lets the       *)
(* pending readFile / needle.get callbacks complete in any order.  Every   *)
(* callback runs to completion (single JavaScript thread), so a callback   *)
(* is one action.  An exception that escapes a callback is an uncaught     *)
(* exception: Node terminates the process and nothing runs afterwards.     *)
(*                                                                         *)
(* Strings the code inspects character by character (profile.generator)    *)
(* are sequences of one-character strings.  A falsy string field (absent   *)
(* or empty) is "" / << >>.                                                *)
(***************************************************************************)
EXTENDS Naturals, Sequences, FiniteSets

VARIABLES
    scriptCfg,   \* swagen.config.js in the working directory: [exists, profiles]
    jsonCfg,     \* swagen.config.json in the working directory: [exists, profiles]
    world,       \* per profile position: what its source, normalizer and generator do
    config,      \* the loaded configuration: sequence of profiles, in for..in order
    main,        \* position of module.exports: start / loop / returned / aborted / nocfg
    idx,         \* position of the processInputs loop
    status,      \* per profile: Pending / Resolving / Done / Failed / Skipped
    events,      \* per profile: the steps performed for it, in order
    logs,        \* per profile: log entries produced while handling it
    mainLog,     \* log entries produced by the catch block of module.exports
    written,     \* per profile: the artifact this invocation wrote for it
    files,       \* file system: resolved path -> content
    crashed,     \* an exception escaped a callback: the process is gone
    run,         \* "first" or "second" invocation on the same inputs
    prevFiles,   \* the file system as the first invocation left it
    genDefinition, \* lib/generator: the definition the generator is called with
    genOutput    \* lib/generator: the text it returned, << >> before the call

vars == <<scriptCfg, jsonCfg, world, config, main, idx, status, events, logs,
          mainLog, written, files, crashed, run, prevFiles, genDefinition, genOutput>>

-----------------------------------------------------------------------------
(* Bounds *)

MaxProfiles == 3

MaxPrefixLen == 2

MaxResources == 2

MaxModels == 2

-----------------------------------------------------------------------------
(* Characters and strings *)

UpperChars == <<"A","B","C","D","E","F","G","H","I","J","K","L","M",
                "N","O","P","Q","R","S","T","U","V","W","X","Y","Z">>

LowerChars == <<"a","b","c","d","e","f","g","h","i","j","k","l","m",
                "n","o","p","q","r","s","t","u","v","w","x","y","z">>

DigitChars == <<"0","1","2","3","4","5","6","7","8","9">>

Range(s) == { s[i] : i \in DOMAIN s }

\* String.prototype.toLowerCase on one character
LowerChar(c) ==
    IF c \in Range(UpperChars)
    THEN LowerChars[CHOOSE i \in DOMAIN UpperChars : UpperChars[i] = c]
    ELSE c

\* String.prototype.toLowerCase
ToLowerCase(s) == [i \in DOMAIN s |-> LowerChar(s[i])]

\* the regular expression class \w
IsWordChar(c) ==
    c \in Range(UpperChars) \cup Range(LowerChars) \cup Range(DigitChars) \cup {"_"}

\* the regular expression class [\w\-]
IsWordOrHyphen(c) == IsWordChar(c) \/ c = "-"

LanguageSuffix == <<"-","l","a","n","g","u","a","g","e">>

CoreName == <<"c","o","r","e">>

-----------------------------------------------------------------------------
(* verifyProfile *)

\* configuration keys by position in for..in order; NoKey: a message that names no key
KeyNames == <<"p1", "p2", "p3", "p4", "p5", "p6">>

NoKey == ""

\* MatchesLanguagePattern for the expression /^.+-language$/i
MatchesAnyPrefix(s) ==
    /\ Len(s) >= Len(LanguageSuffix) + 1
    /\ ToLowerCase(SubSeq(s, Len(s) - Len(LanguageSuffix) + 1, Len(s))) = LanguageSuffix

\* /^[\w\-]+-language$/i : one or more word characters or hyphens, then the
\* suffix "-language" in any letter case, and nothing else
MatchesLanguagePattern(s) ==
    /\ Len(s) >= Len(LanguageSuffix) + 1
    /\ ToLowerCase(SubSeq(s, Len(s) - Len(LanguageSuffix) + 1, Len(s))) = LanguageSuffix
    /\ \A i \in 1..(Len(s) - Len(LanguageSuffix)) : IsWordOrHyphen(s[i])

\* VerifyRule with the reserved name compared without toLowerCase
VerifyRuleCaseSensitive(profile) ==
    IF profile.file = "" /\ profile.url = "" THEN "source"
    ELSE IF profile.output = "" THEN "output"
    ELSE IF profile.generator = << >> THEN "generator"
    ELSE IF profile.generator = CoreName THEN "reserved"
    ELSE IF MatchesLanguagePattern(profile.generator) THEN "language"
    ELSE "none"

\* the first check of verifyProfile that rejects the profile, "none" if none does
VerifyRule(profile) ==
    IF profile.file = "" /\ profile.url = "" THEN "source"
    ELSE IF profile.output = "" THEN "output"
    ELSE IF profile.generator = << >> THEN "generator"
    ELSE IF ToLowerCase(profile.generator) = CoreName THEN "reserved"
    ELSE IF MatchesLanguagePattern(profile.generator) THEN "language"
    ELSE "none"

\* What a rejecting check throws.  Every message is a template literal that
\* reads the variable profileKey, which is not in scope in verifyProfile (its
\* only parameter is profile; the loop variable of processInputs is block
\* scoped): evaluating the literal throws a ReferenceError before the Error
\* with the message is constructed.  key and rule are what the thrown
\* error's message names.
ThrownByVerify(profile) ==
    [name |-> "ReferenceError", key |-> NoKey, rule |-> "none"]

EmptyObject == "{}"

Unset == "unset"

DefaultObject(v) == IF v = Unset THEN EmptyObject ELSE v

DefaultDebug(d) == IF d.set THEN d ELSE [set |-> TRUE, definition |-> ""]

\* WithDefaults with the options assigned whether or not they were set
WithDefaultsClobber(profile) ==
    [profile EXCEPT !.debug = DefaultDebug(profile.debug),
                    !.transforms = DefaultObject(profile.transforms),
                    !.options = EmptyObject]

\* the profile after the three defaulting statements
WithDefaults(profile) ==
    [profile EXCEPT !.debug = DefaultDebug(profile.debug),
                    !.transforms = DefaultObject(profile.transforms),
                    !.options = DefaultObject(profile.options)]

\* verifyProfile: ok and the profile as mutated in place, or the thrown error
VerifyProfile(profile) ==
    IF VerifyRule(profile) = "none"
    THEN [ok |-> TRUE, error |-> [name |-> "", key |-> NoKey, rule |-> "none"],
          profile |-> WithDefaults(profile)]
    ELSE [ok |-> FALSE, error |-> ThrownByVerify(profile), profile |-> profile]

-----------------------------------------------------------------------------
(* Files, documents, definitions and generated text *)

\* path.resolve(currentDir, p)
ResolvePath(p) ==
    CASE p = "a.ts" -> "/cwd/a.ts"
      [] p = "./a.ts" -> "/cwd/a.ts"
      [] p = "b.ts" -> "/cwd/b.ts"
      [] p = "def.json" -> "/cwd/def.json"
      [] OTHER -> "/cwd"

AllPaths == {"/cwd/a.ts", "/cwd/b.ts", "/cwd/def.json", "/cwd"}

NoContent == [kind |-> "none", gen |-> << >>, doc |-> "", opts |-> ""]

EmptyFiles == [p \in AllPaths |-> NoContent]

\* JSON.parse of the document text: the structured value, or a SyntaxError
JsonParse(swagger) ==
    IF swagger.wellFormed
    THEN [ok |-> TRUE, value |-> [swagger EXCEPT !.type = "object"]]
    ELSE [ok |-> FALSE, value |-> swagger]

\* new swagenCore.Parser(swagger).parse(): the definition of the document
ParserParse(swagger) == [kind |-> "definition", gen |-> << >>, doc |-> swagger.doc, opts |-> ""]

\* generatorPkg.generate(definition, profile): text that depends on the
\* generator, the definition and the options of the profile
Generate(definition, profile) ==
    [kind |-> "artifact", gen |-> profile.generator, doc |-> definition.doc,
     opts |-> profile.options]

\* what the readFile / needle.get callback receives on success: readFile with
\* the 'utf8' encoding always yields a string, needle may yield a parsed body
Swagger(profile, env) ==
    IF profile.file # "" THEN [env.body EXCEPT !.type = "string"] ELSE env.body

LogEntry(level, key, text) == [level |-> level, key |-> key, text |-> text]

-----------------------------------------------------------------------------
(* handleSwagger: the steps it performs up to its return or its first throw *)

\* result of one run of handleSwagger
Outcome(ev, lg, threw, done, debugFile, artifact) ==
    [events |-> ev, logs |-> lg, threw |-> threw, done |-> done,
     debugFile |-> debugFile, artifact |-> artifact]

\* GenerateAndWrite with the output file opened and written before generate
WriteThenGenerate(key, definition, profile, env, ev, lg, debugFile) ==
    IF env.write = "throw"
    THEN Outcome(ev \o <<"writeFile", "throw">>, lg, TRUE, FALSE, debugFile, NoContent)
    ELSE IF env.gen = "throw"
    THEN Outcome(ev \o <<"writeFile", "generate", "throw">>, lg, TRUE, FALSE, debugFile,
                 [NoContent EXCEPT !.kind = "artifact"])
    ELSE Outcome(ev \o <<"writeFile", "generate", "done">>,
                 lg \o <<LogEntry("info", key, "code-generated")>>, FALSE, TRUE,
                 debugFile, Generate(definition, profile))

\* lines 165-169: generate, then the write of the artifact
GenerateAndWrite(key, definition, profile, env, ev, lg, debugFile) ==
    IF env.gen = "throw"
    THEN Outcome(ev \o <<"generate", "throw">>, lg, TRUE, FALSE, debugFile, NoContent)
    ELSE IF env.write = "throw"
    THEN Outcome(ev \o <<"generate", "writeFile", "throw">>, lg, TRUE, FALSE,
                 debugFile, NoContent)
    ELSE Outcome(ev \o <<"generate", "writeFile", "done">>,
                 lg \o <<LogEntry("info", key, "code-generated")>>, FALSE, TRUE,
                 debugFile, Generate(definition, profile))

\* InvokeGenerator with an exception of the hook caught and ignored
InvokeGeneratorIgnoringHook(key, definition, profile, env, ev, lg, debugFile) ==
    IF env.hook = "none"
    THEN GenerateAndWrite(key, definition, profile, env, ev, lg, debugFile)
    ELSE GenerateAndWrite(key, definition, profile, env, ev \o <<"validateProfile">>,
                          lg, debugFile)

\* lines 162-164: the optional validateProfile hook, then generate
InvokeGenerator(key, definition, profile, env, ev, lg, debugFile) ==
    IF env.hook = "none"
    THEN GenerateAndWrite(key, definition, profile, env, ev, lg, debugFile)
    ELSE IF env.hook = "throw"
    THEN Outcome(ev \o <<"validateProfile", "throw">>, lg, TRUE, FALSE, debugFile, NoContent)
    ELSE GenerateAndWrite(key, definition, profile, env, ev \o <<"validateProfile">>,
                          lg, debugFile)

\* lines 156-161: load the generator module
ResolveGenerator(key, definition, profile, env, ev, lg, debugFile) ==
    IF env.load = "throw"
    THEN Outcome(ev \o <<"require", "throw">>, lg, TRUE, FALSE, debugFile, NoContent)
    ELSE InvokeGenerator(key, definition, profile, env, ev \o <<"require">>, lg, debugFile)

\* lines 148-154: normalize, then the optional dump of the definition, whose
\* writeFileSync may throw before anything is written or logged
Normalize(key, swagger, profile, env, ev, lg) ==
    IF env.norm = "throw"
    THEN Outcome(ev \o <<"Parser.parse", "throw">>, lg, TRUE, FALSE, NoContent, NoContent)
    ELSE IF profile.debug.definition # "" /\ env.dump = "throw"
    THEN Outcome(ev \o <<"Parser.parse", "debugWrite", "throw">>, lg, TRUE, FALSE,
                 NoContent, NoContent)
    ELSE IF profile.debug.definition # ""
    THEN ResolveGenerator(key, ParserParse(swagger), profile, env,
                          ev \o <<"Parser.parse", "debugWrite">>,
                          lg \o <<LogEntry("debug", key, "definition-written")>>,
                          ParserParse(swagger))
    ELSE ResolveGenerator(key, ParserParse(swagger), profile, env,
                          ev \o <<"Parser.parse">>, lg, NoContent)

\* HandleSwagger without the return that ends the catch block of JSON.parse
HandleSwaggerNoReturn(key, swagger, profile, env) ==
    IF swagger.type = "string"
    THEN IF JsonParse(swagger).ok
         THEN Normalize(key, JsonParse(swagger).value, profile, env,
                        <<"handleSwagger", "JSON.parse">>, << >>)
         ELSE Normalize(key, swagger, profile, env, <<"handleSwagger", "JSON.parse">>,
                        <<LogEntry("error", key, "invalid-source"),
                          LogEntry("error", NoKey, "syntax-message")>>)
    ELSE Normalize(key, swagger, profile, env, <<"handleSwagger">>, << >>)

\* handleSwagger(swagger, profile, profileKey)
HandleSwagger(key, swagger, profile, env) ==
    IF swagger.type = "string"
    THEN IF JsonParse(swagger).ok
         THEN Normalize(key, JsonParse(swagger).value, profile, env,
                        <<"handleSwagger", "JSON.parse">>, << >>)
         ELSE Outcome(<<"handleSwagger", "JSON.parse", "return">>,
                      <<LogEntry("error", key, "invalid-source"),
                        LogEntry("error", NoKey, "syntax-message")>>,
                      FALSE, FALSE, NoContent, NoContent)
    ELSE Normalize(key, swagger, profile, env, <<"handleSwagger">>, << >>)

-----------------------------------------------------------------------------
(* Configurations and environments the invocations start from *)

Profile(skip, file, url, output, generator, debug, transforms, options) ==
    [skip |-> skip, file |-> file, url |-> url, output |-> output,
     generator |-> generator, debug |-> debug, transforms |-> transforms,
     options |-> options]

Env(io, body, norm, dump, load, hook, gen, write) ==
    [io |-> io, body |-> body, norm |-> norm, dump |-> dump, load |-> load,
     hook |-> hook, gen |-> gen, write |-> write]

NoDebug == [set |-> FALSE, definition |-> ""]

DumpDebug == [set |-> TRUE, definition |-> "def.json"]

TextBody(doc) == [type |-> "string", wellFormed |-> TRUE, doc |-> doc]

BadTextBody(doc) == [type |-> "string", wellFormed |-> FALSE, doc |-> doc]

ObjectBody(doc) == [type |-> "object", wellFormed |-> TRUE, doc |-> doc]

GenTs == <<"t","s">>

GenLocal == <<".","/","g","e","n">>

GenCoreMixed == <<"C","o","r","e">>

GoodEnv == Env("ok", TextBody("d1"), "ok", "ok", "ok", "none", "ok", "ok")

\* profiles with what their source and generator do, for multi-profile runs
Cases ==
    { [profile |-> Profile(FALSE, "in.json", "", "a.ts", GenTs, NoDebug, Unset, Unset),
       env |-> GoodEnv],
      [profile |-> Profile(FALSE, "", "http://x/doc.json", "./a.ts", GenLocal, DumpDebug,
                           Unset, "custom"),
       env |-> Env("ok", ObjectBody("d2"), "ok", "ok", "ok", "ok", "ok", "ok")],
      [profile |-> Profile(FALSE, "", "http://x/doc.json", "b.ts", GenTs, NoDebug, Unset, Unset),
       env |-> Env("error", TextBody("d1"), "ok", "ok", "ok", "none", "ok", "ok")],
      [profile |-> Profile(FALSE, "", "http://x/doc.json", "b.ts", GenCoreMixed, NoDebug,
                           Unset, Unset),
       env |-> GoodEnv],
      [profile |-> Profile(TRUE, "in.json", "", "", << >>, NoDebug, Unset, Unset),
       env |-> GoodEnv],
      [profile |-> Profile(FALSE, "in.json", "", "b.ts", GenTs, NoDebug, Unset, Unset),
       env |-> Env("ok", BadTextBody("d1"), "ok", "ok", "ok", "none", "ok", "ok")],
      [profile |-> Profile(FALSE, "in.json", "http://x/doc.json", "b.ts", GenTs, NoDebug,
                           "custom", EmptyObject),
       env |-> Env("ok", TextBody("d1"), "ok", "ok", "ok", "ok", "ok", "ok")],
      [profile |-> Profile(FALSE, "in.json", "", "b.ts", GenTs, NoDebug, Unset, Unset),
       env |-> Env("ok", TextBody("d2"), "ok", "ok", "ok", "ok", "throw", "ok")],
      [profile |-> Profile(FALSE, "", "http://x/doc.json", "b.ts", GenTs, NoDebug, Unset, Unset),
       env |-> Env("hang", TextBody("d1"), "ok", "ok", "ok", "none", "ok", "ok")] }

\* generator strings: unset, plain names, and prefix + suffix combinations
PrefixChars == {"x", "-", ".", "/"}

Prefixes == UNION { [1..n -> PrefixChars] : n \in 0..MaxPrefixLen }

Suffixes ==
    { LanguageSuffix,
      <<"-","L","A","N","G","U","A","G","E">>,
      <<"-","L","a","n","g","u","a","g","e">>,
      <<"-","l","a","n","g","u","a","g","e","s">> }

Generators ==
    { << >>, GenTs, GenLocal, CoreName, GenCoreMixed, <<"C","O","R","E">>,
      <<"c","o","r","e","s">> }
      \cup { pre \o suf : pre \in Prefixes, suf \in Suffixes }

\* single profiles over every combination of the fields verifyProfile reads
FieldProfiles ==
    { Profile(skip, file, url, output, generator, dbg, obj, obj) :
        skip \in BOOLEAN, file \in {"", "in.json"}, url \in {"", "http://x/doc.json"},
        output \in {"", "a.ts"}, generator \in Generators,
        dbg \in {NoDebug, DumpDebug}, obj \in {Unset, "custom"} }

\* every combination of what the source, the normalizer and the generator do
\* (a source that hangs never calls back: see Cases)
Envs ==
    { Env(io, body, norm, dump, load, hook, gen, write) :
        io \in {"ok", "error"},
        body \in {TextBody("d1"), BadTextBody("d1"), ObjectBody("d1")},
        norm \in {"ok", "throw"}, dump \in {"ok", "throw"}, load \in {"ok", "throw"},
        hook \in {"none", "ok", "throw"}, gen \in {"ok", "throw"},
        write \in {"ok", "throw"} }

EnvProfiles ==
    { Profile(FALSE, "in.json", "http://x/doc.json", "a.ts", GenTs, DumpDebug, Unset, Unset),
      Profile(FALSE, "", "http://x/doc.json", "b.ts", GenLocal, NoDebug, "custom", EmptyObject) }

Positions == DOMAIN world

Present(profiles) == [exists |-> TRUE, profiles |-> profiles]

Missing == [exists |-> FALSE, profiles |-> << >>]

\* the state of a fresh process, for a given working directory and environment
Fresh ==
    /\ config = << >>
    /\ main = "start"
    /\ idx = 1
    /\ status = [i \in Positions |-> "Pending"]
    /\ events = [i \in Positions |-> << >>]
    /\ logs = [i \in Positions |-> << >>]
    /\ mainLog = << >>
    /\ written = [i \in Positions |-> NoContent]
    /\ files = EmptyFiles
    /\ crashed = FALSE

InitCases ==
    \E cs \in [1..MaxProfiles -> Cases] :
        /\ scriptCfg = Present([i \in 1..MaxProfiles |-> cs[i].profile])
        /\ jsonCfg = Missing
        /\ world = [i \in 1..MaxProfiles |-> cs[i].env]

InitFields ==
    \E p \in FieldProfiles :
        /\ scriptCfg = Present(<<p>>)
        /\ jsonCfg = Missing
        /\ world = <<Env("ok", TextBody("d1"), "ok", "ok", "ok", "ok", "ok", "ok")>>

InitEnvs ==
    \E p \in EnvProfiles, e \in Envs :
        /\ scriptCfg = Missing
        /\ jsonCfg = Present(<<p>>)
        /\ world = <<e>>

InitDiscovery ==
    \E s \in BOOLEAN, j \in BOOLEAN :
        /\ scriptCfg = IF s THEN Present(<<Profile(FALSE, "in.json", "", "a.ts", GenTs,
                                                   NoDebug, Unset, Unset)>>)
                       ELSE Missing
        /\ jsonCfg = IF j THEN Present(<<Profile(FALSE, "", "http://x/doc.json", "b.ts",
                                                 GenLocal, NoDebug, Unset, Unset)>>)
                     ELSE Missing
        /\ world = <<GoodEnv>>

Init ==
    /\ InitCases \/ InitFields \/ InitEnvs \/ InitDiscovery
    /\ Fresh
    /\ run = "first"
    /\ prevFiles = EmptyFiles
    /\ genDefinition = [resources |-> << >>, models |-> << >>]
    /\ genOutput = << >>

-----------------------------------------------------------------------------
(* lib/generator/index.js: the generator entry point *)

\* one line of generated code: the sub-generator it comes from, the resource
\* or model it is for, and which of that item's lines it is
Line(group, item, part) == [group |-> group, item |-> item, part |-> part]

\* the empty line pushed between the services and the models
BlankLine == Line("", "", "")

\* require('os').EOL, as it stands in the joined text
Eol == Line("EOL", "", "")

\* generate-initial-code: returns a new array with the boilerplate lines
GenerateInitialCode(definition) ==
    <<Line("initial", "", "header"), Line("initial", "", "imports")>>

RECURSIVE ServiceLines(_)
\* the lines of the services, resource by resource
ServiceLines(resources) ==
    IF resources = << >> THEN << >>
    ELSE <<Line("service", Head(resources), "open"), Line("service", Head(resources), "close")>>
         \o ServiceLines(Tail(resources))

\* generate-services: appends the lines of every resource, in resource order
GenerateServices(definition, code) == code \o ServiceLines(definition.resources)

\* generate-models: appends one line per model, in model order
GenerateModels(definition, code) ==
    code \o [k \in DOMAIN definition.models |-> Line("model", definition.models[k], "type")]

\* Array.prototype.join: the elements with the separator between neighbours
Join(lines, sep) ==
    IF lines = << >> THEN << >>
    ELSE [k \in 1..(2 * Len(lines) - 1) |->
            IF k % 2 = 1 THEN lines[(k + 1) \div 2] ELSE sep]

\* GeneratorIndex with the separator pushed only when there are models
GeneratorIndexNoEmptySeparator(definition) ==
    IF definition.models = << >>
    THEN Join(GenerateServices(definition, GenerateInitialCode(definition)), Eol)
    ELSE Join(GenerateModels(definition,
                  Append(GenerateServices(definition, GenerateInitialCode(definition)),
                         BlankLine)), Eol)

\* module.exports of lib/generator/index.js
GeneratorIndex(definition) ==
    Join(GenerateModels(definition,
             Append(GenerateServices(definition, GenerateInitialCode(definition)),
                    BlankLine)), Eol)

ResourceNames == {"pet", "store", "user"}

ModelNames == {"Pet", "Order"}

Definitions ==
    { [resources |-> r, models |-> m] :
        r \in UNION { [1..n -> ResourceNames] : n \in 0..MaxResources },
        m \in UNION { [1..n -> ModelNames] : n \in 0..MaxModels } }

\* a generator call on any definition, outside any swagen invocation
InitGenerator ==
    /\ genDefinition \in Definitions
    /\ genOutput = << >>
    /\ scriptCfg = Missing
    /\ jsonCfg = Missing
    /\ world = <<GoodEnv>>
    /\ Fresh
    /\ run = "first"
    /\ prevFiles = EmptyFiles

\* the generator is called with the definition and returns the joined text
CallGenerator ==
    /\ genOutput = << >>
    /\ genOutput' = GeneratorIndex(genDefinition)
    /\ UNCHANGED <<genDefinition, scriptCfg, jsonCfg, world, config, main, idx, status,
                   events, logs, mainLog, written, files, crashed, run, prevFiles>>

NextGenerator == CallGenerator

SpecGenerator == InitGenerator /\ [][NextGenerator]_vars

-----------------------------------------------------------------------------
(* module.exports: getConfig, then the processInputs loop *)

Append2(f, i, items) == [f EXCEPT ![i] = @ \o items]

\* LoadConfig with the JSON form looked for first
LoadConfigJsonFirst ==
    /\ main = "start"
    /\ scriptCfg.exists \/ jsonCfg.exists
    /\ config' = IF jsonCfg.exists THEN jsonCfg.profiles ELSE scriptCfg.profiles
    /\ main' = "loop"
    /\ UNCHANGED <<genDefinition, genOutput, scriptCfg, jsonCfg, world, idx, status, events, logs, mainLog,
                   written, files, crashed, run, prevFiles>>

\* getConfig finds a configuration file: the script form first, then the JSON form
LoadConfig ==
    /\ main = "start"
    /\ scriptCfg.exists \/ jsonCfg.exists
    /\ config' = IF scriptCfg.exists THEN scriptCfg.profiles ELSE jsonCfg.profiles
    /\ main' = "loop"
    /\ UNCHANGED <<genDefinition, genOutput, scriptCfg, jsonCfg, world, idx, status, events, logs, mainLog,
                   written, files, crashed, run, prevFiles>>

\* getConfig throws the remediation text (a string); the catch block logs it
\* with cli.error and shows the help
DiscoveryError ==
    /\ main = "start"
    /\ ~scriptCfg.exists /\ ~jsonCfg.exists
    /\ main' = "nocfg"
    /\ mainLog' = mainLog \o <<LogEntry("error", NoKey, "discovery-remediation"),
                                LogEntry("help", NoKey, "help")>>
    /\ UNCHANGED <<genDefinition, genOutput, scriptCfg, jsonCfg, world, config, idx, status, events, logs,
                   written, files, crashed, run, prevFiles>>

InLoop == main = "loop" /\ idx <= Len(config)

\* SkipProfile with the skip test placed after verifyProfile
SkipProfileAfterVerify ==
    /\ InLoop
    /\ config[idx].skip
    /\ VerifyProfile(config[idx]).ok
    /\ config' = [config EXCEPT ![idx] = VerifyProfile(config[idx]).profile]
    /\ status' = [status EXCEPT ![idx] = "Skipped"]
    /\ events' = Append2(events, idx, <<"verifyProfile">>)
    /\ idx' = idx + 1
    /\ UNCHANGED <<genDefinition, genOutput, scriptCfg, jsonCfg, world, main, logs, mainLog,
                   written, files, crashed, run, prevFiles>>

\* loop iteration: profile.skip is set, continue
SkipProfile ==
    /\ InLoop
    /\ config[idx].skip
    /\ status' = [status EXCEPT ![idx] = "Skipped"]
    /\ idx' = idx + 1
    /\ UNCHANGED <<genDefinition, genOutput, scriptCfg, jsonCfg, world, config, main, events, logs, mainLog,
                   written, files, crashed, run, prevFiles>>

\* RejectProfile with the catch block ending the process (process.exit)
RejectProfileExits ==
    /\ InLoop
    /\ ~config[idx].skip
    /\ ~VerifyProfile(config[idx]).ok
    /\ status' = [status EXCEPT ![idx] = "Failed"]
    /\ events' = Append2(events, idx, <<"verifyProfile", "throw">>)
    /\ mainLog' = mainLog \o <<LogEntry("console", VerifyProfile(config[idx]).error.key,
                                         VerifyProfile(config[idx]).error.name)>>
    /\ main' = "aborted"
    /\ crashed' = TRUE
    /\ UNCHANGED <<genDefinition, genOutput, scriptCfg, jsonCfg, world, config, idx, logs, written, files,
                   run, prevFiles>>

\* loop iteration: verifyProfile throws; the exception leaves processInputs and
\* is logged by the catch block of module.exports with console.log
RejectProfile ==
    /\ InLoop
    /\ ~config[idx].skip
    /\ ~VerifyProfile(config[idx]).ok
    /\ status' = [status EXCEPT ![idx] = "Failed"]
    /\ events' = Append2(events, idx, <<"verifyProfile", "throw">>)
    /\ mainLog' = mainLog \o <<LogEntry("console", VerifyProfile(config[idx]).error.key,
                                         VerifyProfile(config[idx]).error.name)>>
    /\ main' = "aborted"
    /\ UNCHANGED <<genDefinition, genOutput, scriptCfg, jsonCfg, world, config, idx, logs, written, files,
                   crashed, run, prevFiles>>

\* loop iteration: the profile is verified and has a file: handleFileSwagger
\* starts the read
StartFile ==
    /\ InLoop
    /\ ~config[idx].skip
    /\ VerifyProfile(config[idx]).ok
    /\ config[idx].file # ""
    /\ config' = [config EXCEPT ![idx] = VerifyProfile(config[idx]).profile]
    /\ status' = [status EXCEPT ![idx] = "Resolving"]
    /\ events' = Append2(events, idx, <<"verifyProfile", "readFile">>)
    /\ logs' = Append2(logs, idx, <<LogEntry("info", KeyNames[idx], "input-file")>>)
    /\ idx' = idx + 1
    /\ UNCHANGED <<genDefinition, genOutput, scriptCfg, jsonCfg, world, main, mainLog, written, files, crashed,
                   run, prevFiles>>

\* StartUrl for a dispatch that looks at the url first
StartUrlFirst ==
    /\ InLoop
    /\ ~config[idx].skip
    /\ VerifyProfile(config[idx]).ok
    /\ config[idx].url # ""
    /\ config' = [config EXCEPT ![idx] = VerifyProfile(config[idx]).profile]
    /\ status' = [status EXCEPT ![idx] = "Resolving"]
    /\ events' = Append2(events, idx, <<"verifyProfile", "needleGet">>)
    /\ logs' = Append2(logs, idx, <<LogEntry("info", KeyNames[idx], "input-url")>>)
    /\ idx' = idx + 1
    /\ UNCHANGED <<genDefinition, genOutput, scriptCfg, jsonCfg, world, main, mainLog, written, files, crashed,
                   run, prevFiles>>

\* loop iteration: the profile is verified and has no file: handleUrlSwagger
\* starts the fetch
StartUrl ==
    /\ InLoop
    /\ ~config[idx].skip
    /\ VerifyProfile(config[idx]).ok
    /\ config[idx].file = ""
    /\ config' = [config EXCEPT ![idx] = VerifyProfile(config[idx]).profile]
    /\ status' = [status EXCEPT ![idx] = "Resolving"]
    /\ events' = Append2(events, idx, <<"verifyProfile", "needleGet">>)
    /\ logs' = Append2(logs, idx, <<LogEntry("info", KeyNames[idx], "input-url")>>)
    /\ idx' = idx + 1
    /\ UNCHANGED <<genDefinition, genOutput, scriptCfg, jsonCfg, world, main, mainLog, written, files, crashed,
                   run, prevFiles>>

\* the loop is over: processInputs and module.exports return
FinishLoop ==
    /\ main = "loop"
    /\ idx > Len(config)
    /\ main' = "returned"
    /\ UNCHANGED <<genDefinition, genOutput, scriptCfg, jsonCfg, world, config, idx, status, events, logs,
                   mainLog, written, files, crashed, run, prevFiles>>

-----------------------------------------------------------------------------
(* The readFile / needle.get callbacks *)

\* callbacks run once the synchronous part of module.exports is over, while
\* the process is alive
CallbacksRun == main \in {"returned", "aborted"} /\ ~crashed

\* SourceFails with the error rethrown from the callback
SourceFailsRethrows(i) ==
    /\ CallbacksRun
    /\ status[i] = "Resolving"
    /\ world[i].io = "error"
    /\ status' = [status EXCEPT ![i] = "Failed"]
    /\ events' = Append2(events, i, <<"ioError">>)
    /\ logs' = Append2(logs, i, <<LogEntry("error", NoKey, "cannot-read-source"),
                                   LogEntry("error", NoKey, "source-error")>>)
    /\ crashed' = TRUE
    /\ UNCHANGED <<genDefinition, genOutput, scriptCfg, jsonCfg, world, config, main, idx, mainLog, written,
                   files, run, prevFiles>>

\* the read or the fetch of profile i fails: two cli.error lines, nothing else
SourceFails(i) ==
    /\ CallbacksRun
    /\ status[i] = "Resolving"
    /\ world[i].io = "error"
    /\ status' = [status EXCEPT ![i] = "Failed"]
    /\ events' = Append2(events, i, <<"ioError">>)
    /\ logs' = Append2(logs, i, <<LogEntry("error", NoKey, "cannot-read-source"),
                                   LogEntry("error", NoKey, "source-error")>>)
    /\ UNCHANGED <<genDefinition, genOutput, scriptCfg, jsonCfg, world, config, main, idx, mainLog, written,
                   files, crashed, run, prevFiles>>

\* FilesAfter with both files written together at the end of handleSwagger
FilesAfterDumpOnSuccess(fs, profile, out) ==
    LET dumped == IF out.debugFile.kind = "none" \/ ~out.done THEN fs
                  ELSE [fs EXCEPT ![ResolvePath(profile.debug.definition)] = out.debugFile]
    IN IF out.artifact.kind = "none" THEN dumped
       ELSE [dumped EXCEPT ![ResolvePath(profile.output)] = out.artifact]

\* the files after handleSwagger: the definition dump first, the artifact second
FilesAfter(fs, profile, out) ==
    LET dumped == IF out.debugFile.kind = "none" THEN fs
                  ELSE [fs EXCEPT ![ResolvePath(profile.debug.definition)] = out.debugFile]
    IN IF out.artifact.kind = "none" THEN dumped
       ELSE [dumped EXCEPT ![ResolvePath(profile.output)] = out.artifact]

\* SourceArrives for profiles handled one after the other: the callback of a
\* profile is held back while an earlier profile is still being resolved
SourceArrivesInTurn(i) ==
    /\ CallbacksRun
    /\ status[i] = "Resolving"
    /\ \A j \in 1..(i - 1) : status[j] # "Resolving"
    /\ world[i].io = "ok"
    /\ LET out == HandleSwagger(KeyNames[i], Swagger(config[i], world[i]), config[i], world[i])
       IN /\ status' = [status EXCEPT ![i] = IF out.done THEN "Done" ELSE "Failed"]
          /\ events' = Append2(events, i, out.events)
          /\ logs' = Append2(logs, i, out.logs)
          /\ written' = [written EXCEPT ![i] = out.artifact]
          /\ files' = FilesAfter(files, config[i], out)
          /\ crashed' = out.threw
    /\ UNCHANGED <<genDefinition, genOutput, scriptCfg, jsonCfg, world, config, main, idx,
                   mainLog, run, prevFiles>>

\* SourceArrives with the callback reading the profile and the key the loop
\* variables hold after the loop (the last ones) instead of its own
SourceArrivesLastProfile(i) ==
    /\ CallbacksRun
    /\ status[i] = "Resolving"
    /\ world[i].io = "ok"
    /\ LET last == Len(config)
           out == HandleSwagger(KeyNames[last], Swagger(config[last], world[i]),
                                config[last], world[i])
       IN /\ status' = [status EXCEPT ![i] = IF out.done THEN "Done" ELSE "Failed"]
          /\ events' = Append2(events, i, out.events)
          /\ logs' = Append2(logs, i, out.logs)
          /\ written' = [written EXCEPT ![i] = out.artifact]
          /\ files' = FilesAfter(files, config[last], out)
          /\ crashed' = out.threw
    /\ UNCHANGED <<genDefinition, genOutput, scriptCfg, jsonCfg, world, config, main, idx,
                   mainLog, run, prevFiles>>

\* the read or the fetch of profile i succeeds: the callback runs handleSwagger
\* with the arguments of its own closure; an exception handleSwagger throws
\* is uncaught and ends the process
SourceArrives(i) ==
    /\ CallbacksRun
    /\ status[i] = "Resolving"
    /\ world[i].io = "ok"
    /\ LET out == HandleSwagger(KeyNames[i], Swagger(config[i], world[i]), config[i], world[i])
       IN /\ status' = [status EXCEPT ![i] = IF out.done THEN "Done" ELSE "Failed"]
          /\ events' = Append2(events, i, out.events)
          /\ logs' = Append2(logs, i, out.logs)
          /\ written' = [written EXCEPT ![i] = out.artifact]
          /\ files' = FilesAfter(files, config[i], out)
          /\ crashed' = out.threw
    /\ UNCHANGED <<genDefinition, genOutput, scriptCfg, jsonCfg, world, config, main, idx, mainLog, run, prevFiles>>

-----------------------------------------------------------------------------
(* A second invocation on the same working directory and environment *)

\* nothing of the invocation is left to run
Quiescent ==
    /\ main \in {"returned", "aborted", "nocfg"}
    /\ crashed \/ \A i \in Positions : status[i] # "Resolving"

\* the command is invoked again in the same working directory, after the
\* process of the first invocation has ended or has nothing left to run: same
\* configuration files, same sources, the files as the first invocation left
\* them (prevFiles remembers them)
InvokeAgain ==
    /\ run = "first"
    /\ Quiescent
    /\ run' = "second"
    /\ prevFiles' = files
    /\ config' = << >>
    /\ main' = "start"
    /\ idx' = 1
    /\ status' = [i \in Positions |-> "Pending"]
    /\ events' = [i \in Positions |-> << >>]
    /\ logs' = [i \in Positions |-> << >>]
    /\ mainLog' = << >>
    /\ written' = [i \in Positions |-> NoContent]
    /\ crashed' = FALSE
    /\ UNCHANGED <<genDefinition, genOutput, scriptCfg, jsonCfg, world, files>>

Next ==
    \/ LoadConfig
    \/ DiscoveryError
    \/ SkipProfile
    \/ RejectProfile
    \/ StartFile
    \/ StartUrl
    \/ FinishLoop
    \/ \E i \in Positions : SourceFails(i)
    \/ \E i \in Positions : SourceArrives(i)
    \/ InvokeAgain

Spec == Init /\ [][Next]_vars

\* the synchronous part of module.exports, which runs to its end once started
MainStep ==
    \/ LoadConfig
    \/ DiscoveryError
    \/ SkipProfile
    \/ RejectProfile
    \/ StartFile
    \/ StartUrl
    \/ FinishLoop

\* a callback whose read or fetch has completed
CallbackStep == \E i \in Positions : SourceFails(i) \/ SourceArrives(i)

\* the steps of one invocation of the command
NextOneRun ==
    \/ MainStep
    \/ CallbackStep

\* the configurations of several profiles, and those of the discovery
InitSeveral ==
    /\ InitCases \/ InitDiscovery
    /\ Fresh
    /\ run = "first"
    /\ prevFiles = EmptyFiles
    /\ genDefinition = [resources |-> << >>, models |-> << >>]
    /\ genOutput = << >>

\* one invocation under the Node event loop: while the process is alive and
\* has synchronous code or a completed callback to run, it runs one of them;
\* a source that hangs never completes
FairSpec ==
    /\ InitSeveral
    /\ [][NextOneRun]_vars
    /\ WF_vars(NextOneRun)

-----------------------------------------------------------------------------
(* Vocabulary of the properties *)

Has(seq, e) == \E k \in DOMAIN seq : seq[k] = e

Count(seq, e) == Cardinality({ k \in DOMAIN seq : seq[k] = e })

\* position of the first occurrence of e in seq (Len(seq) + 1 if there is none)
FirstAt(seq, e) ==
    IF Has(seq, e) THEN CHOOSE k \in DOMAIN seq : seq[k] = e /\ \A j \in 1..(k - 1) : seq[j] # e
    ELSE Len(seq) + 1

Before(seq, a, b) == Has(seq, a) /\ FirstAt(seq, a) < FirstAt(seq, b)

Profiles == DOMAIN config

\* the profile as the configuration file gives it
Original(i) == IF scriptCfg.exists THEN scriptCfg.profiles[i] ELSE jsonCfg.profiles[i]

Started(i) == Has(events[i], "readFile") \/ Has(events[i], "needleGet")

\* the generator name is "core" in some letter case
IsCoreAnyCase(g) ==
    /\ Len(g) = 4
    /\ g[1] \in {"c", "C"} /\ g[2] \in {"o", "O"} /\ g[3] \in {"r", "R"} /\ g[4] \in {"e", "E"}

\* structurally incomplete, or the reserved name
MalformedProfile(profile) ==
    \/ profile.file = "" /\ profile.url = ""
    \/ profile.output = ""
    \/ profile.generator = << >>
    \/ IsCoreAnyCase(profile.generator)

\* every step of the profile's own pipeline succeeds
OwnStepsSucceed(i) ==
    /\ ~config[i].skip
    /\ VerifyProfile(config[i]).ok
    /\ world[i].io = "ok"
    /\ Swagger(config[i], world[i]).type = "string" => world[i].body.wellFormed
    /\ world[i].norm = "ok" /\ world[i].load = "ok" /\ world[i].hook # "throw"
    /\ config[i].debug.definition # "" => world[i].dump = "ok"
    /\ world[i].gen = "ok" /\ world[i].write = "ok"

\* the text the profile's own generator returns for the profile's own document
OwnOutput(i) ==
    [kind |-> "artifact", gen |-> Original(i).generator, doc |-> world[i].body.doc,
     opts |-> DefaultObject(Original(i).options)]

FailedBySource(i) == status[i] = "Failed" /\ Has(events[i], "ioError")

FailedByValidation(i) == status[i] = "Failed" /\ events[i] = <<"verifyProfile", "throw">>

\* an exception was raised while handling some profile
SomeThrow == \E k \in Positions : Has(events[k], "throw")

-----------------------------------------------------------------------------
(* C1 *)

\* C1: a failed file read or URL fetch ends only the pipeline of its own
\* profile: it does not end the process or the loop, and, as long as no
\* exception is raised for any profile, every other profile whose own steps
\* succeed keeps its pending callback, ends Done once its callback has run,
\* and has then written the output of its own generator to its own path.
C1_SourceFailureIsolated ==
    \A p \in Profiles : FailedBySource(p) /\ ~SomeThrow =>
        /\ ~crashed
        /\ main = "returned"
        /\ \A q \in Profiles \ {p} : OwnStepsSucceed(q) =>
              /\ status[q] \in {"Resolving", "Done"}
              /\ status[q] = "Done" =>
                    /\ written[q] = OwnOutput(q)
                    /\ files[ResolvePath(Original(q).output)].kind = "artifact"
              /\ Quiescent => status[q] = "Done"

\* a fetch failed in the middle position and the profiles around it are Done
C1_Witness ==
    /\ Len(config) >= 3
    /\ FailedBySource(2)
    /\ status[1] = "Done" /\ written[1] = OwnOutput(1)
    /\ status[3] = "Done" /\ written[3] = OwnOutput(3)

-----------------------------------------------------------------------------
(* C2 *)

\* C2 as stated: after a validation failure every other non-skipped valid
\* profile, also a later one, is still validated and has its resolution started.
C2_AsStated ==
    main \in {"returned", "aborted"} =>
        \A q \in Profiles : ~config[q].skip /\ VerifyProfile(config[q]).ok =>
            Has(events[q], "verifyProfile") /\ Started(q)

-----------------------------------------------------------------------------
(* C3 *)

\* C3 as stated: an exception of the normalizer, of the generator load, of the
\* validateProfile hook or of generate stays inside its profile: the process
\* goes on and the pending callbacks of the sibling profiles can still run.
C3_AsStated ==
    \A p \in Profiles : Has(events[p], "handleSwagger") /\ Has(events[p], "throw") =>
        /\ status[p] = "Failed"
        /\ ~crashed
        /\ \A q \in Profiles \ {p} : status[q] = "Resolving" => CallbacksRun

-----------------------------------------------------------------------------
(* C4 *)

\* C4: a non-skipped profile with no file and no url, or no output, or no
\* generator, or the generator "core" in any letter case, is rejected by
\* verifyProfile; no read, no fetch, no generator load and no artifact write
\* is ever performed for it, and once the loop has reached it, it is Failed.
C4_MalformedNeverStarted ==
    \A i \in Profiles : ~config[i].skip /\ MalformedProfile(config[i]) =>
        /\ ~VerifyProfile(config[i]).ok
        /\ ~Started(i)
        /\ ~Has(events[i], "handleSwagger") /\ ~Has(events[i], "require")
        /\ ~Has(events[i], "writeFile") /\ ~Has(events[i], "debugWrite")
        /\ written[i] = NoContent
        /\ status[i] \in {"Pending", "Failed"}
        /\ (main = "loop" /\ idx > i) \/ main \in {"returned", "aborted"} =>
              status[i] = "Failed" \/ \E k \in 1..(i - 1) : FailedByValidation(k)

\* a profile with a url, an output and the generator "Core" was rejected
C4_Witness ==
    \E i \in Profiles :
        /\ ~config[i].skip
        /\ config[i].url # "" /\ config[i].output # ""
        /\ IsCoreAnyCase(config[i].generator) /\ config[i].generator # CoreName
        /\ FailedByValidation(i)

-----------------------------------------------------------------------------
(* C5 *)

UpperOf(c) ==
    IF c \in Range(LowerChars)
    THEN UpperChars[CHOOSE i \in DOMAIN LowerChars : LowerChars[i] = c]
    ELSE c

\* s is a non-empty prefix followed by "-language" in any letter case
EndsWithLanguage(s) ==
    /\ Len(s) > Len(LanguageSuffix)
    /\ \A k \in DOMAIN LanguageSuffix :
          s[Len(s) - Len(LanguageSuffix) + k] \in {LanguageSuffix[k], UpperOf(LanguageSuffix[k])}

LanguagePrefix(s) == SubSeq(s, 1, Len(s) - Len(LanguageSuffix))

\* a letter, a digit, an underscore or a hyphen
PackageNameChar(c) ==
    c \in Range(LowerChars) \cup Range(UpperChars) \cup Range(DigitChars) \cup {"_", "-"}

PackageNamePrefix(s) == \A k \in DOMAIN LanguagePrefix(s) : PackageNameChar(s[k])

Reached(i) == (main = "loop" /\ idx > i) \/ (main = "aborted" /\ idx >= i) \/ main = "returned"

\* C5 as stated: every generator string that is some prefix followed by
\* "-language" (any letter case) is rejected, module paths included.
C5_AsStated ==
    \A i \in Profiles : EndsWithLanguage(config[i].generator) => ~VerifyProfile(config[i]).ok

\* C5, amended: a generator string made of one or more letters, digits,
\* underscores or hyphens followed by "-language" (any letter case) is
\* rejected, and a non-skipped profile with it is Failed once the loop has
\* reached it; a generator string whose prefix holds any other character (a
\* module path such as "./x-language") is not rejected for its suffix: the
\* profile passes validation when it is otherwise complete and not "core".
C5_PackageNameLanguageRejected ==
    \A i \in Profiles : EndsWithLanguage(config[i].generator) =>
        IF PackageNamePrefix(config[i].generator)
        THEN /\ ~VerifyProfile(config[i]).ok
             /\ ~config[i].skip /\ Reached(i) => FailedByValidation(i)
        ELSE /\ ~MalformedProfile(config[i]) => VerifyProfile(config[i]).ok
             /\ ~MalformedProfile(config[i]) /\ ~config[i].skip /\ Reached(i) => Started(i)

\* an otherwise complete profile with a package-name generator ending in
\* "-language", not all in lower case, was rejected
C5_Witness ==
    \E i \in Profiles :
        /\ EndsWithLanguage(config[i].generator) /\ PackageNamePrefix(config[i].generator)
        /\ ToLowerCase(config[i].generator) # config[i].generator
        /\ config[i].file # "" /\ config[i].output # ""
        /\ FailedByValidation(i)

-----------------------------------------------------------------------------
(* C6 *)

\* C6 as stated: the error raised for a rejected profile carries the key of
\* that profile and a reason naming the violated rule, and so does its log entry.
C6_AsStated ==
    main = "aborted" =>
        /\ VerifyProfile(config[idx]).error.key = KeyNames[idx]
        /\ VerifyProfile(config[idx]).error.rule = VerifyRule(config[idx])
        /\ mainLog[Len(mainLog)].key = KeyNames[idx]

-----------------------------------------------------------------------------
(* C7 *)

\* C7: a profile with skip set is never validated, keeps its fields as the
\* configuration file gives them (no defaults), has no read or fetch started,
\* writes no artifact and no debug file and logs nothing; when the loop has
\* passed it, it is Skipped, the loop was not ended by it and stands at a
\* later position.
C7_SkippedUntouched ==
    \A i \in Profiles : config[i].skip =>
        /\ events[i] = << >>
        /\ logs[i] = << >>
        /\ config[i] = Original(i)
        /\ written[i] = NoContent
        /\ status[i] \in {"Pending", "Skipped"}
        /\ status[i] = "Skipped" => idx > i
        /\ Reached(i) /\ ~(main = "aborted" /\ idx = i) => status[i] = "Skipped"
        /\ main = "aborted" => idx # i

\* a skipped profile that verifyProfile would reject, with defaults unset, and
\* a later profile that was started
C7_Witness ==
    \E i \in Profiles, j \in Profiles :
        /\ i < j
        /\ status[i] = "Skipped"
        /\ ~VerifyProfile(config[i]).ok
        /\ ~config[i].debug.set /\ config[i].options = Unset
        /\ Started(j)

-----------------------------------------------------------------------------
(* C8 *)

FileProfiles == IF scriptCfg.exists THEN scriptCfg.profiles ELSE jsonCfg.profiles

\* the non-skipped profiles of the configuration file that name the path,
\* as their output or as their debug definition file
NamedBy(path) ==
    { i \in DOMAIN FileProfiles :
        /\ ~FileProfiles[i].skip
        /\ \/ ResolvePath(FileProfiles[i].output) = path
           \/ /\ FileProfiles[i].debug.definition # ""
              /\ ResolvePath(FileProfiles[i].debug.definition) = path }

\* C8 as stated, for the paths where no two profiles meet: when two
\* invocations on the same configuration and documents have ended, every
\* output path that at most one non-skipped profile names holds the same
\* content after the second as after the first, whatever the completion
\* orders.
C8_UnsharedPathsAsStated ==
    run = "second" /\ Quiescent =>
        \A i \in DOMAIN FileProfiles :
            Cardinality(NamedBy(ResolvePath(FileProfiles[i].output))) <= 1 =>
                files[ResolvePath(FileProfiles[i].output)]
                    = prevFiles[ResolvePath(FileProfiles[i].output)]

-----------------------------------------------------------------------------
(* C9 *)

\* the step of the profile state machine an event belongs to ("" for the
\* calls made inside a step)
StepOf(e) ==
    CASE e = "verifyProfile" -> "Validating"
      [] e \in {"readFile", "needleGet"} -> "Resolving"
      [] e = "handleSwagger" -> "Parsing"
      [] e = "Parser.parse" -> "Normalizing"
      [] e = "debugWrite" -> "DebugDump"
      [] e = "require" -> "GeneratorResolving"
      [] e = "generate" -> "Generating"
      [] e = "writeFile" -> "Writing"
      [] e = "done" -> "Done"
      [] e \in {"throw", "ioError", "return"} -> "Failed"
      [] OTHER -> ""

IsStep(x) == x # ""

Steps(i) == SelectSeq([k \in DOMAIN events[i] |-> StepOf(events[i][k])], IsStep)

StepOrder ==
    <<"Validating", "Resolving", "Parsing", "Normalizing", "DebugDump",
      "GeneratorResolving", "Generating", "Writing", "Done">>

StepOrderNoDump ==
    <<"Validating", "Resolving", "Parsing", "Normalizing",
      "GeneratorResolving", "Generating", "Writing", "Done">>

IsPrefix(a, b) == Len(a) <= Len(b) /\ \A k \in DOMAIN a : a[k] = b[k]

\* the steps before the failure, if the profile failed
StepsDone(i) ==
    IF Steps(i) # << >> /\ Steps(i)[Len(Steps(i))] = "Failed"
    THEN SubSeq(Steps(i), 1, Len(Steps(i)) - 1)
    ELSE Steps(i)

StepsInOrder(i) ==
    /\ IsPrefix(StepsDone(i), StepOrder) \/ IsPrefix(StepsDone(i), StepOrderNoDump)
    /\ Has(events[i], "writeFile") => Before(events[i], "generate", "writeFile")
    /\ status[i] = "Failed" <=> (Steps(i) # << >> /\ Steps(i)[Len(Steps(i))] = "Failed")
    /\ status[i] = "Done" <=> StepsDone(i) \in {StepOrder, StepOrderNoDump}
    /\ status[i] = "Done" => written[i].kind = "artifact"
    /\ status[i] = "Resolving" <=> Steps(i) = <<"Validating", "Resolving">>
    /\ status[i] = "Pending" => Steps(i) = << >>

\* C9: the steps performed for a non-skipped profile are, in this order and
\* each at most once, Validating, Resolving, Parsing, Normalizing, the
\* optional DebugDump, GeneratorResolving, Generating, Writing, Done, cut
\* short only by a failure; the artifact is written only after generate has
\* returned; and a Failed profile performs no further step while the
\* invocation lasts.
C9_StepsInOrder ==
    /\ [](\A i \in Positions : status[i] # "Skipped" => StepsInOrder(i))
    /\ [][\A i \in Positions : status[i] = "Failed" /\ run' = run =>
              /\ status'[i] = "Failed"
              /\ events'[i] = events[i]
              /\ written'[i] = written[i]]_vars

\* one profile is Done after all nine steps, another failed after Normalizing
C9_Witness ==
    \E i \in Profiles, j \in Profiles :
        /\ status[i] = "Done" /\ StepsDone(i) = StepOrder
        /\ status[j] = "Failed"
        /\ Steps(j) = <<"Validating", "Resolving", "Parsing", "Failed">>

-----------------------------------------------------------------------------
(* C10 *)

\* the event that follows the first occurrence of e ("" if e is last or absent)
NextAfter(seq, e) == IF FirstAt(seq, e) < Len(seq) THEN seq[FirstAt(seq, e) + 1] ELSE ""

\* the generator module of the profile was required and the require returned
GeneratorLoaded(i) == Has(events[i], "require") /\ world[i].load = "ok"

\* C10: when the generator module has a validateProfile hook, the hook is
\* called once, right after the module is loaded and before generate; when
\* the hook fails, generate is never called and no artifact is written for
\* the profile; when the module has no hook, generate is called directly
\* after the load.
C10_HookBeforeGenerate ==
    \A i \in Profiles :
        /\ world[i].hook # "none" /\ GeneratorLoaded(i) =>
              /\ NextAfter(events[i], "require") = "validateProfile"
              /\ Count(events[i], "validateProfile") = 1
        /\ world[i].hook # "none" /\ Has(events[i], "generate") =>
              Before(events[i], "validateProfile", "generate")
        /\ world[i].hook = "throw" =>
              /\ ~Has(events[i], "generate") /\ ~Has(events[i], "writeFile")
              /\ written[i] = NoContent
              /\ status[i] # "Done"
        /\ world[i].hook = "none" =>
              /\ ~Has(events[i], "validateProfile")
              /\ GeneratorLoaded(i) => NextAfter(events[i], "require") = "generate"

\* a profile whose hook failed: the hook was called, generate was not
C10_Witness ==
    \E i \in Profiles :
        /\ world[i].hook = "throw"
        /\ Has(events[i], "validateProfile")
        /\ status[i] = "Failed"
        /\ ~Has(events[i], "generate")

-----------------------------------------------------------------------------
(* C11 *)

\* the callback of the profile received text that JSON.parse rejects
GotMalformedText(i) ==
    /\ Has(events[i], "handleSwagger")
    /\ Swagger(config[i], world[i]).type = "string"
    /\ ~world[i].body.wellFormed

\* an exception was raised inside the callback of some profile
SomeCallbackThrow ==
    \E k \in Positions : Has(events[k], "handleSwagger") /\ Has(events[k], "throw")

\* C11: when the document text of a profile fails JSON.parse, an error entry
\* naming the profile key is logged, handleSwagger returns: the normalizer,
\* the generator load, the hook and generate are never called for the
\* profile, neither its debug definition file nor its artifact is written,
\* and the process and the other profiles go on as without it.
C11_MalformedTextEndsOnlyItsProfile ==
    \A i \in Profiles : GotMalformedText(i) =>
        /\ status[i] = "Failed"
        /\ \E k \in DOMAIN logs[i] :
              /\ logs[i][k].level = "error"
              /\ logs[i][k].key = KeyNames[i]
              /\ logs[i][k].text = "invalid-source"
        /\ ~Has(events[i], "Parser.parse") /\ ~Has(events[i], "require")
        /\ ~Has(events[i], "validateProfile") /\ ~Has(events[i], "generate")
        /\ ~Has(events[i], "debugWrite") /\ ~Has(events[i], "writeFile")
        /\ ~Has(events[i], "throw")
        /\ written[i] = NoContent
        /\ \A path \in AllPaths : NamedBy(path) = {i} => files[path] = NoContent
        /\ ~SomeCallbackThrow =>
              /\ ~crashed
              /\ \A q \in Profiles \ {i} : Started(q) /\ OwnStepsSucceed(q) =>
                    /\ status[q] \in {"Resolving", "Done"}
                    /\ Quiescent => status[q] = "Done" /\ written[q] = OwnOutput(q)

\* a profile with a debug definition path got malformed text
C11_WitnessDebug ==
    \E i \in Profiles :
        GotMalformedText(i) /\ config[i].debug.definition # "" /\ status[i] = "Failed"

\* a profile got malformed text and a sibling profile is Done after it
C11_Witness ==
    \E i \in Profiles, q \in Profiles :
        /\ i < q
        /\ GotMalformedText(i) /\ status[i] = "Failed"
        /\ status[q] = "Done" /\ written[q] = OwnOutput(q)

-----------------------------------------------------------------------------
(* C12 *)

\* the definition of the profile's own document, as dumped
OwnDefinition(i) == [kind |-> "definition", gen |-> << >>, doc |-> world[i].body.doc, opts |-> ""]

\* the profiles that name the path as their debug definition file
DumpedBy(path) ==
    { i \in DOMAIN FileProfiles :
        /\ ~FileProfiles[i].skip
        /\ FileProfiles[i].debug.definition # ""
        /\ ResolvePath(FileProfiles[i].debug.definition) = path }

\* C12: for a profile with debug.definition set whose normalization
\* succeeded, the dump of the definition is the step that follows, before the
\* generator is loaded; when its write succeeds the definition is at the
\* debug path, and it is there whether the load, the hook, generate or the
\* artifact write then succeeds or throws (the path being named by no other
\* profile and not being the profile's own output); when its write throws,
\* nothing is logged about the definition and no later step is performed;
\* for a profile with no debug.definition no definition is ever dumped.
C12_DefinitionDumped ==
    \A i \in Profiles :
        /\ Original(i).debug.definition # "" /\ Has(events[i], "Parser.parse")
              /\ world[i].norm = "ok" =>
              /\ NextAfter(events[i], "Parser.parse") = "debugWrite"
              /\ Before(events[i], "debugWrite", "require")
              /\ world[i].dump = "ok"
                    /\ NamedBy(ResolvePath(Original(i).debug.definition)) = {i}
                    /\ ResolvePath(Original(i).output)
                          # ResolvePath(Original(i).debug.definition) =>
                    files[ResolvePath(Original(i).debug.definition)] = OwnDefinition(i)
              /\ world[i].dump = "ok" =>
                    \E k \in DOMAIN logs[i] : logs[i][k].text = "definition-written"
              /\ world[i].dump = "throw" =>
                    /\ NextAfter(events[i], "debugWrite") = "throw"
                    /\ ~Has(events[i], "require") /\ ~Has(events[i], "generate")
                    /\ status[i] = "Failed" /\ written[i] = NoContent
                    /\ \A k \in DOMAIN logs[i] : logs[i][k].text # "definition-written"
        /\ Original(i).debug.definition = "" => ~Has(events[i], "debugWrite")
        /\ \A path \in AllPaths : DumpedBy(path) = {} => files[path].kind # "definition"

\* the write of the definition has thrown
C12_WitnessDumpThrows ==
    \E i \in Profiles :
        /\ Has(events[i], "debugWrite") /\ world[i].dump = "throw"
        /\ status[i] = "Failed" /\ crashed
        /\ files[ResolvePath(config[i].debug.definition)] = NoContent

\* the definition was dumped and generate then threw
C12_Witness ==
    \E i \in Profiles :
        /\ Has(events[i], "debugWrite")
        /\ world[i].gen = "throw" /\ Has(events[i], "generate") /\ status[i] = "Failed"
        /\ files[ResolvePath(config[i].debug.definition)] = OwnDefinition(i)

-----------------------------------------------------------------------------
(* C13 *)

\* the lines of the returned text: every second element, from the first
OutputLines == [k \in 1..((Len(genOutput) + 1) \div 2) |-> genOutput[2 * k - 1]]

GroupRank(line) ==
    CASE line.group = "initial" -> 1
      [] line.group = "service" -> 2
      [] line = BlankLine -> 3
      [] line.group = "model" -> 4
      [] OTHER -> 0

IsServiceOpen(line) == line.group = "service" /\ line.part = "open"

IsModelLine(line) == line.group = "model"

IsInitialLine(line) == line.group = "initial"

ItemsOf(lines) == [k \in DOMAIN lines |-> lines[k].item]

\* C13: the text the generator returns is the boilerplate lines, then the
\* lines of every service in resource order, then exactly one empty line,
\* then the lines of every model in model order, never interleaved, with the
\* line terminator between every two neighbouring lines; the empty line is
\* there exactly once also with no services or no models.
C13_AssembledInOrder ==
    genOutput # << >> =>
        /\ Len(genOutput) % 2 = 1
        /\ \A k \in DOMAIN genOutput : (genOutput[k] = Eol) <=> (k % 2 = 0)
        /\ Count(OutputLines, BlankLine) = 1
        /\ \A j \in DOMAIN OutputLines, k \in DOMAIN OutputLines :
              /\ GroupRank(OutputLines[j]) > 0
              /\ j < k => GroupRank(OutputLines[j]) <= GroupRank(OutputLines[k])
        /\ SelectSeq(OutputLines, IsInitialLine) = GenerateInitialCode(genDefinition)
        /\ ItemsOf(SelectSeq(OutputLines, IsServiceOpen)) = genDefinition.resources
        /\ \A k \in DOMAIN OutputLines : IsServiceOpen(OutputLines[k]) =>
              /\ k < Len(OutputLines)
              /\ OutputLines[k + 1] = Line("service", OutputLines[k].item, "close")
        /\ ItemsOf(SelectSeq(OutputLines, IsModelLine)) = genDefinition.models
        /\ Len(OutputLines) = Len(GenerateInitialCode(genDefinition))
              + 2 * Len(genDefinition.resources) + 1 + Len(genDefinition.models)

\* the generator returned for two resources and no model: the text ends with
\* the line terminator and the empty line
C13_Witness ==
    /\ Len(genDefinition.resources) = 2 /\ genDefinition.models = << >>
    /\ genOutput # << >>
    /\ genOutput[Len(genOutput)] = BlankLine
    /\ genOutput[Len(genOutput) - 1] = Eol

-----------------------------------------------------------------------------
(* C14 *)

\* the profile's source never calls back
Hangs(i) == world[i].io = "hang"

\* the profile's read or fetch was started and completes, and each of its own
\* steps succeeds
CanFinish(i) == Started(i) /\ OwnStepsSucceed(i)

\* C14: the loop starts the read or fetch of every non-skipped profile it
\* reaches while every profile started before is still unresolved (no
\* completion is waited for), so that when the loop returns every non-skipped
\* profile is started; and, under the fairness of the event loop, every
\* started profile whose own I/O completes and whose own steps succeed
\* reaches Done (whenever one such profile is not Done yet, a state follows
\* where all of them are), whichever other sources hang, unless an exception
\* raised in the callback of another profile has ended the process.
C14_HungSourceStallsOnlyItself ==
    /\ [](main = "loop" =>
            \A i \in Profiles : i < idx /\ ~config[i].skip => status[i] = "Resolving")
    /\ [](main = "returned" =>
            \A i \in Profiles : ~config[i].skip => Started(i))
    /\ (\E q \in Profiles : CanFinish(q) /\ status[q] # "Done")
          ~> (\A q \in Profiles : CanFinish(q) => status[q] = "Done" \/ SomeCallbackThrow)

\* the first source hangs, is still unresolved, and a later profile is Done
C14_Witness ==
    \E p \in Profiles, q \in Profiles :
        /\ p < q
        /\ Hangs(p) /\ status[p] = "Resolving"
        /\ status[q] = "Done" /\ written[q] = OwnOutput(q)

-----------------------------------------------------------------------------
(* C15 *)

\* the three defaulted fields of the profile are present, and are the
\* original values where the configuration set them
HasDefaults(i) ==
    /\ config[i].debug.set
    /\ config[i].debug = DefaultDebug(Original(i).debug)
    /\ config[i].transforms # Unset
    /\ config[i].transforms = DefaultObject(Original(i).transforms)
    /\ config[i].options # Unset
    /\ config[i].options = DefaultObject(Original(i).options)
    /\ Original(i).debug.set => config[i].debug = Original(i).debug
    /\ Original(i).transforms # Unset => config[i].transforms = Original(i).transforms
    /\ Original(i).options # Unset => config[i].options = Original(i).options

\* C15: a profile is verified at most once, and a started profile exactly
\* once, as the first step and before its read or fetch; from the start of the
\* read or fetch on, the profile every later step is handed has debug,
\* transforms and options present, the empty mapping where the configuration
\* left them out and the configured value otherwise: the debug dump happens
\* only for a configured debug definition, and the text of a Done profile was
\* generated with the defaulted options. Only started profiles are handed to
\* handleSwagger.
C15_DefaultsOnceBeforeIO ==
    \A i \in Profiles :
        /\ Count(events[i], "verifyProfile") <= 1
        /\ Has(events[i], "handleSwagger") => Started(i)
        /\ Started(i) =>
            /\ Count(events[i], "verifyProfile") = 1
            /\ events[i][1] = "verifyProfile"
            /\ Before(events[i], "verifyProfile", "readFile")
            /\ Before(events[i], "verifyProfile", "needleGet")
            /\ HasDefaults(i)
            /\ Has(events[i], "debugWrite") => Original(i).debug.definition # ""
            /\ status[i] = "Done" => written[i].opts = DefaultObject(Original(i).options)

\* a profile configured without debug, transforms and options is Done, and its
\* text was generated with the empty mapping as options
C15_Witness ==
    \E i \in Profiles :
        /\ ~Original(i).debug.set
        /\ Original(i).transforms = Unset /\ Original(i).options = Unset
        /\ status[i] = "Done"
        /\ HasDefaults(i)
        /\ written[i].opts = EmptyObject

-----------------------------------------------------------------------------
(* C16 *)

\* the configuration gives the profile a file and a url
HasBothSources(i) == Original(i).file # "" /\ Original(i).url # ""

\* C16: for a non-skipped valid profile with both a file and a url, the
\* iteration of the loop that handles it starts exactly one file read, and no
\* fetch is ever started for it, in particular not after the read has failed;
\* the failure of the read leaves the profile Failed.
C16_FileTakesPrecedence ==
    \A i \in Profiles :
        HasBothSources(i) /\ ~config[i].skip /\ VerifyProfile(config[i]).ok =>
            /\ ~Has(events[i], "needleGet")
            /\ Count(events[i], "readFile") <= 1
            /\ Reached(i) => Count(events[i], "readFile") = 1
            /\ \A k \in DOMAIN logs[i] : logs[i][k].text # "input-url"
            /\ Has(events[i], "ioError") =>
                /\ status[i] = "Failed"
                /\ events[i] = <<"verifyProfile", "readFile", "ioError">>

\* the read of a profile with both sources has failed
C16_Witness ==
    \E i \in Profiles :
        /\ HasBothSources(i)
        /\ FailedBySource(i)
        /\ Count(events[i], "readFile") = 1
        /\ Quiescent

-----------------------------------------------------------------------------
(* C17 *)

NoConfigFile == ~scriptCfg.exists /\ ~jsonCfg.exists

\* what the catch block of module.exports reports for the string getConfig throws
DiscoveryReport ==
    <<LogEntry("error", NoKey, "discovery-remediation"), LogEntry("help", NoKey, "help")>>

\* the configuration in use is the one of the given file, up to the defaults
\* verifyProfile has filled in
LoadedFrom(cfg) ==
    /\ Len(config) = Len(cfg.profiles)
    /\ \A i \in Profiles : config[i] \in {cfg.profiles[i], WithDefaults(cfg.profiles[i])}

\* C17: when neither configuration file exists, the invocation ends with the
\* remediation text logged as an error, followed by the help, and nothing
\* else: no configuration is loaded, no profile is verified, read, fetched
\* or logged about, and no file is written. When the script-form file
\* exists, the configuration processed is the one of the script-form file,
\* whether or not the JSON-form file exists too, and no discovery error is
\* reported; the JSON-form file is loaded when it is the only one.
C17_DiscoveryErrorBeforeProcessing ==
    /\ NoConfigFile =>
        /\ main \in {"start", "nocfg"}
        /\ config = << >>
        /\ \A i \in Positions :
              /\ events[i] = << >> /\ logs[i] = << >>
              /\ status[i] = "Pending" /\ written[i] = NoContent
        /\ files = EmptyFiles
        /\ ~crashed
        /\ mainLog = IF main = "nocfg" THEN DiscoveryReport ELSE << >>
    /\ ~NoConfigFile =>
        /\ main # "nocfg"
        /\ \A k \in DOMAIN mainLog : mainLog[k].text # "discovery-remediation"
        /\ main # "start" => LoadedFrom(IF scriptCfg.exists THEN scriptCfg ELSE jsonCfg)

\* neither file exists and the invocation has reported it
C17_Witness ==
    /\ NoConfigFile
    /\ main = "nocfg"
    /\ mainLog = DiscoveryReport

\* both files exist, with different profiles, and the profile of the
\* script-form file is Done
C17_WitnessScriptFirst ==
    /\ scriptCfg.exists /\ jsonCfg.exists
    /\ scriptCfg.profiles # jsonCfg.profiles
    /\ main = "returned"
    /\ status[1] = "Done" /\ written[1] = OwnOutput(1)
    /\ config[1].file = scriptCfg.profiles[1].file

-----------------------------------------------------------------------------
(* C18 *)

\* some error entry of the log names the key
ErrorNames(log, key) == \E k \in DOMAIN log : log[k].level = "error" /\ log[k].key = key

\* C18 as stated: whenever a profile is Failed, whatever the kind of the
\* failure (validation, file read, fetch, malformed text, an exception of a
\* later step), an error entry logged for it names the key of the profile.
C18_AsStated ==
    \A i \in Profiles :
        status[i] = "Failed" => ErrorNames(logs[i], KeyNames[i]) \/ ErrorNames(mainLog, KeyNames[i])

-----------------------------------------------------------------------------
(* C19 *)

\* number of reads and fetches started for the profile
SourceStarts(i) == Count(events[i], "readFile") + Count(events[i], "needleGet")

\* every entry logged while handling the profile carries its key or none
OwnKeysOnly(i) == \A k \in DOMAIN logs[i] : logs[i][k].key \in {KeyNames[i], NoKey}

\* C19: whatever the order in which the reads and fetches complete, the text
\* written for a profile is the value its own generator returns for the
\* definition of its own document and for the profile itself (its own
\* options), a Done profile has exactly one read or fetch, one call of
\* handleSwagger, one generate and one write, no profile ever has more than
\* one of each, and the entries logged for a profile carry no other key; the
\* step that makes a profile Done leaves that text at the profile's own
\* output path and changes no path besides it and the profile's own debug
\* definition path.
C19_OwnInputsOnly ==
    /\ [](\A i \in Profiles :
            /\ SourceStarts(i) <= 1
            /\ Count(events[i], "handleSwagger") <= 1
            /\ Count(events[i], "generate") <= 1
            /\ Count(events[i], "writeFile") <= 1
            /\ OwnKeysOnly(i)
            /\ written[i] \in {NoContent, OwnOutput(i)}
            /\ status[i] = "Done" =>
                /\ written[i] = OwnOutput(i)
                /\ SourceStarts(i) = 1
                /\ Count(events[i], "handleSwagger") = 1
                /\ Count(events[i], "generate") = 1
                /\ Count(events[i], "writeFile") = 1)
    /\ [][\A i \in Profiles :
            status[i] = "Resolving" /\ status'[i] = "Done" =>
                /\ files'[ResolvePath(Original(i).output)] = OwnOutput(i)
                /\ \A path \in AllPaths :
                      files'[path] # files[path] =>
                          path \in {ResolvePath(Original(i).output),
                                    ResolvePath(Original(i).debug.definition)}]_vars

\* two profiles with different documents, generators and output paths are
\* Done, each with its own text at its own path
C19_Witness ==
    \E i \in Profiles, j \in Profiles :
        /\ i < j
        /\ world[i].body.doc # world[j].body.doc
        /\ Original(i).generator # Original(j).generator
        /\ ResolvePath(Original(i).output) # ResolvePath(Original(j).output)
        /\ status[i] = "Done" /\ status[j] = "Done"
        /\ files[ResolvePath(Original(i).output)] = OwnOutput(i)
        /\ files[ResolvePath(Original(j).output)] = OwnOutput(j)

-----------------------------------------------------------------------------
(* C20 *)

\* the loop has handled the profile (skipped, rejected or started it)
Handled(i) == status[i] # "Pending"

\* the loop was ended by the validation failure of profile p
AbortedAt(p) == main = "aborted" /\ idx = p

\* C20: the loop handles the profiles in the order of the keys of the
\* configuration: the profiles handled are those before the loop position
\* (and the rejected one), each non-skipped one of them started, and nothing
\* has happened for the others. When verifyProfile rejects profile p, the
\* step changes nothing of the profiles before p, and from then on every
\* non-skipped profile before p is started and stays Resolving, with its
\* callback still runnable when its I/O completes, until the callback has
\* run; when nothing is left to run, each of them whose own steps succeed is
\* Done with its own text at its output path, unless a callback has thrown.
C20_StartedWorkSurvivesAbort ==
    /\ [](main \in {"loop", "aborted", "returned"} =>
            \A i \in Profiles :
                /\ i < idx => Handled(i) /\ (~config[i].skip => Started(i))
                /\ i > idx => ~Handled(i) /\ events[i] = << >>
                /\ i = idx => (Handled(i) <=> main = "aborted"))
    /\ [](\A p \in Profiles : AbortedAt(p) =>
            \A i \in 1..(p - 1) :
                /\ ~config[i].skip => Started(i)
                /\ OwnStepsSucceed(i) =>
                    /\ status[i] \in {"Resolving", "Done"}
                    /\ status[i] = "Resolving" /\ ~SomeCallbackThrow => ENABLED SourceArrives(i)
                    /\ status[i] = "Done" => written[i] = OwnOutput(i)
                    /\ Quiescent /\ ~SomeCallbackThrow => status[i] = "Done")
    /\ [][main = "loop" /\ main' = "aborted" =>
            \A i \in 1..(idx - 1) :
                /\ status'[i] = status[i] /\ events'[i] = events[i]
                /\ written'[i] = written[i] /\ config'[i] = config[i]
                /\ ~crashed']_vars

\* the loop was ended by the validation failure of a profile, and a profile
\* before it, started before the failure, is Done with its own text
C20_Witness ==
    \E p \in Profiles, i \in Profiles :
        /\ i < p
        /\ AbortedAt(p) /\ FailedByValidation(p)
        /\ status[i] = "Done" /\ written[i] = OwnOutput(i)
        /\ files[ResolvePath(Original(i).output)] = OwnOutput(i)

====
